---- MODULE Spec2Model ----
(***************************************************************************)
(* The query-graph-to-expression translator of                             *)
(* query-compiler/query-compiler/src/translate.rs as a state machine.      *)
(*                                                                         *)
(* The recursion of NodeTranslator is an explicit stack of frames, one     *)
(* frame per NodeTranslator instance; every action is one step of the      *)
(* code of the frame on top of the stack.  The query graph (query_core)    *)
(* and the lowering service (query_builder) are collaborators whose code   *)
(* is not part of translate.rs: they are modelled from their contract.     *)
(***************************************************************************)
EXTENDS Integers, Sequences, FiniteSets, TLC

\* ------------------------------------------------------------------ bounds

\* Nodes of an input graph are 1..MaxNodes.
MaxNodes == 3
\* An input graph has at most MaxEdges edges.
MaxEdges == 3
\* Deepest recursion the model follows (NodeTranslator frames on the stack).
MaxDepth == MaxNodes + 2

VARIABLES
    graph,      \* the QueryGraph: node slots, edges, edge slots, result nodes, visited
    builder,    \* the lowering service: the queries it rejects
    roots,      \* translate(): the root nodes not yet translated (the iterator)
    collected,  \* translate(): the expressions collected so far
    stack,      \* the NodeTranslator frames, innermost last
    ret,        \* the Result handed from a finished frame to its caller
    outcome,    \* what translate() returned: an expression, an error, or an abort
    log,        \* every call made on the graph and the lowering service, in order
    input       \* the graph as translate() received it (never changed)

vars == <<graph, builder, roots, collected, stack, ret, outcome, log, input>>

\* ------------------------------------------------------------ Expression IR

Seq_(items) == [tag |-> "Seq", items |-> items]
Let_(bindings, expr) == [tag |-> "Let", bindings |-> bindings, expr |-> expr]
Get(name) == [tag |-> "Get", name |-> name]
GetFirstNonEmpty(names) == [tag |-> "GetFirstNonEmpty", names |-> names]
MapField(field, records) == [tag |-> "MapField", field |-> field, records |-> records]
\* The opaque leaf the lowering service returns for a finalized query.
QueryExpr(query) == [tag |-> "Query", query |-> query]
Binding(name, expr) == [name |-> name, expr |-> expr]

\* ------------------------------------------------------------------ errors

NodeContentEmpty(id) == [tag |-> "NodeContentEmpty", id |-> id]
QueryBuildFailure(id) == [tag |-> "QueryBuildFailure", id |-> id]
GraphBuildError(id) == [tag |-> "GraphBuildError", id |-> id]

NoRet == [kind |-> "none"]
Ok(expr) == [kind |-> "Ok", expr |-> expr]
Err(error) == [kind |-> "Err", error |-> error]

\* ------------------------------------------------------- the graph contract

\* Fields of a selection: a name and the storage name db_name() gives.
FieldId == [name |-> "id", db_name |-> "_id"]
FieldEmail == [name |-> "email", db_name |-> "email_col"]
db_name(field) == field.db_name

\* Dependency descriptors.  A projected-data dependency carries its selection
\* and its rewrite function, of which the model keeps whether it succeeds.
ExecutionOrder == [kind |-> "ExecutionOrder", selection |-> <<>>, f_ok |-> TRUE]
ProjectedDataDependency(selection, f_ok) ==
    [kind |-> "ProjectedDataDependency", selection |-> selection, f_ok |-> f_ok]
DataDependency == [kind |-> "DataDependency", selection |-> <<>>, f_ok |-> TRUE]
Then == [kind |-> "Then", selection |-> <<>>, f_ok |-> TRUE]
Else == [kind |-> "Else", selection |-> <<>>, f_ok |-> TRUE]
\* An edge slot that has been plucked.
NoDependency == [kind |-> "None", selection |-> <<>>, f_ok |-> TRUE]

NodeRefs(g) == 1..Len(g.node_content)
EdgeRefs(g) == 1..Len(g.edges)

id(node) == node

edge_source(g, edge) == g.edges[edge].source
edge_target(g, edge) == g.edges[edge].target
node_content(g, node) == g.node_content[node]
edge_content(g, edge) == g.edge_content[edge]
is_result_node(g, node) == node \in g.result_nodes

RECURSIVE SeqOfSet(_)
SeqOfSet(S) ==
    IF S = {} THEN <<>>
    ELSE LET m == CHOOSE x \in S : \A y \in S : x <= y
         IN <<m>> \o SeqOfSet(S \ {m})

\* The result nodes of the graph, in node order.
result_nodes(g) == SeqOfSet(g.result_nodes)

incoming_edges(g, node) ==
    SelectSeq(SeqOfSet(EdgeRefs(g)), LAMBDA e : edge_target(g, e) = node)
outgoing_edges(g, node) ==
    SelectSeq(SeqOfSet(EdgeRefs(g)), LAMBDA e : edge_source(g, e) = node)

\* Nodes with no incoming edge, in node order.
root_nodes(g) ==
    SelectSeq(SeqOfSet(NodeRefs(g)), LAMBDA n : incoming_edges(g, n) = <<>>)

\* The (edge, child) pairs of a node, in edge order.
direct_child_pairs(g, node) ==
    LET out == outgoing_edges(g, node)
    IN [i \in 1..Len(out) |-> [edge |-> out[i], node |-> edge_target(g, out[i])]]

RECURSIVE Reach(_, _, _)
Reach(g, frontier, seen) ==
    IF frontier \subseteq seen THEN seen
    ELSE Reach(g,
               {edge_target(g, e) : e \in {x \in EdgeRefs(g) : edge_source(g, x) \in frontier}},
               seen \cup frontier)

\* Whether a result node is reachable from node (node itself included).
subgraph_contains_result(g, node) == Reach(g, {node}, {}) \cap g.result_nodes # {}

mark_visited(g, node) ==
    [g EXCEPT !.visited = IF node \in @ THEN @ ELSE @ \cup {node}]
\* Take and clear: the graph after the pluck (the caller keeps the old content).
pluck_node(g, node) == [g EXCEPT !.node_content[node] = "None"]
pluck_edge(g, edge) == [g EXCEPT !.edge_content[edge] = NoDependency]

\* --------------------------------------------------------------- the log

Event(op, node, edge, content, name) ==
    [op |-> op, node |-> node, edge |-> edge, content |-> content, name |-> name]

\* ------------------------------------------------- NodeTranslator, helpers

Reverse(s) == [i \in 1..Len(s) |-> s[Len(s) + 1 - i]]
RemoveAt(s, pos) == SubSeq(s, 1, pos - 1) \o SubSeq(s, pos + 1, Len(s))

\* process_children: the positions of the children whose subgraph holds a
\* result node, as filter_map over enumerate gives them.
result_positions(g, child_pairs) ==
    SelectSeq([i \in 1..Len(child_pairs) |-> i],
              LAMBDA idx : subgraph_contains_result(g, child_pairs[idx].node))

\* Mutant: swap_remove in place of remove, the last pair moved into the gap.
SwapRemoveAt(s, pos) ==
    IF pos = Len(s) THEN SubSeq(s, 1, Len(s) - 1)
    ELSE [i \in 1..(Len(s) - 1) |-> IF i = pos THEN s[Len(s)] ELSE s[i]]
RECURSIVE swap_remove_positions(_, _, _)
swap_remove_positions(child_pairs, positions, removed) ==
    IF positions = <<>>
    THEN [result_subgraphs |-> removed, child_pairs |-> child_pairs]
    ELSE swap_remove_positions(SwapRemoveAt(child_pairs, Head(positions)),
                               Tail(positions),
                               Append(removed, child_pairs[Head(positions)]))

\* process_children: child_pairs.remove(pos) for each position in turn; the
\* removed pairs in the order of removal, and what remains.
RECURSIVE remove_positions(_, _, _)
remove_positions(child_pairs, positions, removed) ==
    IF positions = <<>>
    THEN [result_subgraphs |-> removed, child_pairs |-> child_pairs]
    ELSE remove_positions(RemoveAt(child_pairs, Head(positions)),
                          Tail(positions),
                          Append(removed, child_pairs[Head(positions)]))

\* Mutant: no child taken out of child_pairs, every child an effect child.
split_children_unsplit(g, child_pairs) ==
    [result_subgraphs |-> <<>>, child_pairs |-> child_pairs]

\* process_children: sort the positions, reverse them, remove highest first.
split_children(g, child_pairs) ==
    LET sorted == SortSeq(result_positions(g, child_pairs), LAMBDA a, b : a < b)
    IN remove_positions(child_pairs, Reverse(sorted), <<>>)

\* Mutant: Get chosen when the node has one result child.
fold_result_expr_by_children(g, bindings) ==
    LET result_binding_names == [i \in 1..Len(bindings) |-> bindings[i].name]
    IN IF Len(bindings) = 1
       THEN Let_(bindings, Get(result_binding_names[Len(result_binding_names)]))
       ELSE Let_(bindings, GetFirstNonEmpty(result_binding_names))

\* fold_result_scopes, after the bindings are collected.
fold_result_expr(g, bindings) ==
    LET result_binding_names == [i \in 1..Len(bindings) |-> bindings[i].name]
    IN IF Len(result_nodes(g)) = 1
       THEN Let_(bindings, Get(result_binding_names[Len(result_binding_names)]))
       ELSE Let_(bindings, GetFirstNonEmpty(result_binding_names))

\* process_child_with_dependency: the field of the pre-pass.  some = FALSE is
\* None; todo = TRUE is the selection the pre-pass does not handle.
NoField == [some |-> FALSE, todo |-> FALSE, field |-> ""]
prepass_field(dep) ==
    IF dep.kind = "ProjectedDataDependency"
    THEN IF Len(dep.selection) = 1
         THEN [some |-> TRUE, todo |-> FALSE, field |-> db_name(dep.selection[1])]
         ELSE [some |-> FALSE, todo |-> TRUE, field |-> ""]
    ELSE NoField

\* process_child_with_dependency: the expression it returns for the child.
wrap_map_field(field, source, expr) ==
    IF field.some
    THEN Let_(<<Binding(id(source), MapField(field.field, Get(id(source))))>>, expr)
    ELSE expr

\* translate_query: the fields handed to the rewrite function of an edge.
selection_result(g, edge, selection) ==
    [i \in 1..Len(selection) |->
        [field |-> selection[i], placeholder |-> id(edge_source(g, edge))]]

\* The rewrite function f of a projected-data dependency: the node with the
\* selection result added to its inputs.
apply_dependency(payload, edge, result) ==
    [payload EXCEPT !.inputs = Append(@, [edge |-> edge, fields |-> result])]

\* Mutant: the node's expression put in front of its children, not bound.
query_expr_unbound(node, expr, children) ==
    IF children # <<>>
    THEN Seq_(<<expr>> \o children)
    ELSE expr

\* Mutant: the leaf bound in a Let also when there are no children.
query_expr_always_let(node, expr, children) ==
    Let_(<<Binding(id(node), expr)>>, Seq_(children))

\* translate_query: the expression it returns.
query_expr(node, expr, children) ==
    IF children # <<>>
    THEN Let_(<<Binding(id(node), expr)>>, Seq_(children))
    ELSE expr

\* ----------------------------------------------------------------- frames

NoPayload == [tag |-> "None", node |-> 0, inputs |-> <<>>]
NoCall == [field |-> NoField, source |-> 0, node |-> 0, edge |-> 0]

Frame(node, parent_edges) ==
    [node |-> node, parent_edges |-> parent_edges, pc |-> "translate",
     child_pairs |-> <<>>, result_subgraphs |-> <<>>,
     expressions |-> <<>>, bindings |-> <<>>,
     payload |-> NoPayload, edge_i |-> 1, call |-> NoCall,
     \* the edges of the children behind expressions and behind the bindings
     \* of the fold, in the order they were pushed and bound
     pushed |-> <<>>, bound |-> <<>>]

top == stack[Len(stack)]
Popped == SubSeq(stack, 1, Len(stack) - 1)
SetTop(frame) == [stack EXCEPT ![Len(stack)] = frame]

NoExpr == [tag |-> "None"]
NoError == [tag |-> "None", id |-> 0]
Running == [status |-> "running", expr |-> NoExpr, error |-> NoError]
Aborted == [status |-> "abort", expr |-> NoExpr, error |-> NoError]

\* Mutant: process_children without the fold of the result children.
children_pc_effects_only(child_pairs, result_subgraphs) ==
    IF child_pairs # <<>> THEN "process_children" ELSE "pluck_node"

\* Where process_children stands once the pairs still to do are known.
children_pc(child_pairs, result_subgraphs) ==
    IF child_pairs # <<>> THEN "process_children"
    ELSE IF result_subgraphs # <<>> THEN "fold_result_scopes"
    ELSE "pluck_node"

InFrame(pc) ==
    /\ outcome.status = "running"
    /\ stack # <<>>
    /\ ret.kind = "none"
    /\ top.pc = pc

\* ------------------------------------------------------------ input graphs

\* An input graph has nodes 1..n, n <= MaxNodes, and at most MaxEdges edges,
\* the edges of one source next to each other in the edge list.  All edges
\* but at most one go forward (source < target); the one that may go
\* backward, or from a node to itself, closes a cycle.

OutLists(n, source, k) ==
    { [i \in 1..k |-> [source |-> source, target |-> t[i]]] : t \in [1..k -> (source + 1)..n] }

\* The forward edge lists over the sources source..n with at most budget edges.
RECURSIVE EdgeLists(_, _, _)
EdgeLists(n, source, budget) ==
    IF source > n THEN {<<>>}
    ELSE UNION { { outs \o rest : outs \in OutLists(n, source, k),
                                  rest \in EdgeLists(n, source + 1, budget - k) }
                 : k \in 0..budget }

\* edges with the edge source -> target added after the edges of source.
WithEdge(edges, source, target) ==
    LET before == SelectSeq(edges, LAMBDA e : e.source <= source)
        after == SelectSeq(edges, LAMBDA e : e.source > source)
    IN before \o <<[source |-> source, target |-> target]>> \o after

\* The edge lists with one edge that goes backward or from a node to itself.
CyclicEdgeLists(n) ==
    { WithEdge(edges, pair[1], pair[2]) :
        edges \in EdgeLists(n, 1, MaxEdges - 1),
        pair \in { p \in (1..n) \X (1..n) : p[2] <= p[1] } }

ProjectedOne == ProjectedDataDependency(<<FieldId>>, TRUE)
ProjectedOneFailing == ProjectedDataDependency(<<FieldId>>, FALSE)
ProjectedTwo == ProjectedDataDependency(<<FieldId, FieldEmail>>, TRUE)

\* What the nodes and edges of a graph of n nodes and e edges hold, and what
\* the lowering service rejects: every node a query and every edge an
\* ordering or every edge a single-field projection, or one node, one edge or
\* one lowering call out of that line.
Fillings(n, e) ==
    LET queries == [i \in 1..n |-> "Query"]
        orders == [i \in 1..e |-> ExecutionOrder]
        projections == [i \in 1..e |-> ProjectedOne]
    IN { [node_content |-> queries, edge_content |-> deps, rejects |-> {}] :
           deps \in {orders, projections} }
       \cup { [node_content |-> [queries EXCEPT ![k] = c], edge_content |-> orders, rejects |-> {}] :
                k \in 1..n, c \in {"Empty", "None", "Other"} }
       \cup { [node_content |-> queries, edge_content |-> [orders EXCEPT ![k] = d], rejects |-> {}] :
                k \in 1..e, d \in {ProjectedTwo, DataDependency, Then, Else} }
       \cup { [node_content |-> queries, edge_content |-> [projections EXCEPT ![k] = ProjectedOneFailing],
               rejects |-> {}] : k \in 1..e }
       \cup { [node_content |-> queries, edge_content |-> orders, rejects |-> {k}] : k \in 1..n }

\* The inputs: an acyclic graph with any of its fillings, or a graph with a
\* cycle, every node a query and every edge an ordering.
InitGraph(edges, results, filling) ==
    /\ graph = [node_content |-> filling.node_content,
                edges |-> edges,
                edge_content |-> filling.edge_content,
                result_nodes |-> results,
                visited |-> {}]
    /\ builder = [rejects |-> filling.rejects]
    /\ input = graph

Init ==
    /\ \E n \in 0..MaxNodes :
       \E results \in SUBSET (1..n) :
          \/ \E edges \in EdgeLists(n, 1, MaxEdges) :
             \E filling \in Fillings(n, Len(edges)) :
                InitGraph(edges, results, filling)
          \/ \E edges \in CyclicEdgeLists(n) :
                InitGraph(edges, results,
                          [node_content |-> [i \in 1..n |-> "Query"],
                           edge_content |-> [i \in 1..Len(edges) |-> ExecutionOrder],
                           rejects |-> {}])
    /\ roots = <<>>
    /\ collected = <<>>
    /\ stack = <<>>
    /\ ret = NoRet
    /\ outcome = [status |-> "init", expr |-> NoExpr, error |-> NoError]
    /\ log = <<>>

\* ------------------------------------------------------------- translate()

\* translate: graph.root_nodes().into_iter()
translate ==
    /\ outcome.status = "init"
    /\ outcome' = Running
    /\ roots' = root_nodes(graph)
    /\ UNCHANGED <<input, graph, builder, collected, stack, ret, log>>

\* translate: the map closure, NodeTranslator::new(graph, node, &[], builder).translate()
TranslateRoot ==
    /\ outcome.status = "running"
    /\ stack = <<>>
    /\ ret.kind = "none"
    /\ roots # <<>>
    /\ stack' = <<Frame(Head(roots), <<>>)>>
    /\ roots' = Tail(roots)
    /\ UNCHANGED <<input, graph, builder, collected, ret, outcome, log>>

\* translate: collect() takes the Ok of a root
RootOk ==
    /\ outcome.status = "running"
    /\ stack = <<>>
    /\ ret.kind = "Ok"
    /\ collected' = Append(collected, ret.expr)
    /\ ret' = NoRet
    /\ UNCHANGED <<input, graph, builder, roots, stack, outcome, log>>

\* translate: collect() stops at the first Err and returns it
RootErr ==
    /\ outcome.status = "running"
    /\ stack = <<>>
    /\ ret.kind = "Err"
    /\ outcome' = [status |-> "error", expr |-> NoExpr, error |-> ret.error]
    /\ ret' = NoRet
    /\ UNCHANGED <<input, graph, builder, roots, collected, stack, log>>

\* Mutant: the expression of a single root returned as it is.
FinishUnwrapped ==
    /\ outcome.status = "running"
    /\ stack = <<>>
    /\ ret.kind = "none"
    /\ roots = <<>>
    /\ outcome' = [status |-> "ok",
                   expr |-> IF Len(collected) = 1 THEN collected[1] ELSE Seq_(collected),
                   error |-> NoError]
    /\ UNCHANGED <<input, graph, builder, roots, collected, stack, ret, log>>

\* translate: .map(Expression::Seq) once every root is collected
Finish ==
    /\ outcome.status = "running"
    /\ stack = <<>>
    /\ ret.kind = "none"
    /\ roots = <<>>
    /\ outcome' = [status |-> "ok", expr |-> Seq_(collected), error |-> NoError]
    /\ UNCHANGED <<input, graph, builder, roots, collected, stack, ret, log>>

\* A panic (unimplemented!, todo!, expect): the process aborts.
Abort ==
    /\ outcome' = Aborted
    /\ stack' = <<>>
    /\ ret' = NoRet
    /\ UNCHANGED <<input, builder, roots, collected>>

\* ------------------------------------------- NodeTranslator::translate

TranslateEvent == Event("translate", top.node, 0, node_content(graph, top.node), 0)

\* Mutant: an empty node marked visited as a query node is.
TranslateEmptyVisited ==
    /\ InFrame("translate")
    /\ node_content(graph, top.node) = "Empty"
    /\ graph' = mark_visited(graph, top.node)
    /\ log' = log \o <<TranslateEvent, Event("mark_visited", top.node, 0, "", 0)>>
    /\ ret' = Ok(Seq_(<<>>))
    /\ stack' = Popped
    /\ UNCHANGED <<input, builder, roots, collected, outcome>>

\* translate: Node::Empty
TranslateEmpty ==
    /\ InFrame("translate")
    /\ node_content(graph, top.node) = "Empty"
    /\ log' = Append(log, TranslateEvent)
    /\ ret' = Ok(Seq_(<<>>))
    /\ stack' = Popped
    /\ UNCHANGED <<input, graph, builder, roots, collected, outcome>>

\* translate: any other content, unimplemented!
TranslateUnimplemented ==
    /\ InFrame("translate")
    /\ node_content(graph, top.node) = "Other"
    /\ log' = Append(log, TranslateEvent)
    /\ Abort
    /\ UNCHANGED graph

\* Mutant: the node plucked before its children are translated.
EnterQueryPluckFirst ==
    /\ LET g == mark_visited(graph, top.node)
           split == IF ~is_result_node(g, top.node)
                    THEN split_children(g, direct_child_pairs(g, top.node))
                    ELSE [result_subgraphs |-> <<>>, child_pairs |-> <<>>]
       IN /\ graph' = pluck_node(g, top.node)
          /\ stack' = SetTop([top EXCEPT
                 !.child_pairs = split.child_pairs,
                 !.result_subgraphs = split.result_subgraphs,
                 !.pc = children_pc(split.child_pairs, split.result_subgraphs)])
    /\ log' = log \o <<TranslateEvent, Event("mark_visited", top.node, 0, "", 0),
                       Event("pluck_node", top.node, 0, node_content(graph, top.node), 0)>>
    /\ UNCHANGED <<input, builder, roots, collected, ret, outcome>>

\* translate_query up to the first child: mark_visited, is_result_node,
\* process_children's split of the children.
EnterQuery ==
    /\ LET g == mark_visited(graph, top.node)
           split == IF ~is_result_node(g, top.node)
                    THEN split_children(g, direct_child_pairs(g, top.node))
                    ELSE [result_subgraphs |-> <<>>, child_pairs |-> <<>>]
       IN /\ graph' = g
          /\ stack' = SetTop([top EXCEPT
                 !.child_pairs = split.child_pairs,
                 !.result_subgraphs = split.result_subgraphs,
                 !.pc = children_pc(split.child_pairs, split.result_subgraphs)])
    /\ log' = log \o <<TranslateEvent, Event("mark_visited", top.node, 0, "", 0)>>
    /\ UNCHANGED <<input, builder, roots, collected, ret, outcome>>

\* translate: Node::Query
TranslateQuery ==
    /\ InFrame("translate")
    /\ node_content(graph, top.node) = "Query"
    /\ EnterQuery

\* Mutant: translate without the check of node_content, an empty slot taken
\* for a query.
TranslateUnchecked ==
    /\ InFrame("translate")
    /\ node_content(graph, top.node) = "None"
    /\ EnterQuery

\* Mutant: a node without content is a silent no-op, as an empty node is.
TranslateNoContentSilent ==
    /\ InFrame("translate")
    /\ node_content(graph, top.node) = "None"
    /\ log' = Append(log, TranslateEvent)
    /\ ret' = Ok(Seq_(<<>>))
    /\ stack' = Popped
    /\ UNCHANGED <<input, graph, builder, roots, collected, outcome>>

\* translate: node_content is None
TranslateNoContent ==
    /\ InFrame("translate")
    /\ node_content(graph, top.node) = "None"
    /\ log' = log \o <<TranslateEvent, Event("err", top.node, 0, "NodeContentEmpty", 0)>>
    /\ ret' = Err(NodeContentEmpty(id(top.node)))
    /\ stack' = Popped
    /\ UNCHANGED <<input, graph, builder, roots, collected, outcome>>

\* ---------------------- process_children / fold_result_scopes: the next child

\* The pair the map closure of the frame on top takes next.
NextPair ==
    IF top.pc = "process_children" THEN Head(top.child_pairs)
    ELSE Head(top.result_subgraphs)

InChildren ==
    /\ outcome.status = "running"
    /\ stack # <<>>
    /\ top.pc \in {"process_children", "fold_result_scopes"}

\* process_child_with_dependency up to the recursive translate(): the
\* pre-pass over the edge, incoming_edges, edge_source, NodeTranslator::new.
ProcessChild ==
    /\ InChildren
    /\ ret.kind = "none"
    /\ Len(stack) < MaxDepth
    /\ LET pair == NextPair
           field == prepass_field(edge_content(graph, pair.edge))
           edges == incoming_edges(graph, pair.node)
           source == edge_source(graph, pair.edge)
           caller == [top EXCEPT
               !.child_pairs = IF top.pc = "process_children" THEN Tail(@) ELSE @,
               !.result_subgraphs = IF top.pc = "fold_result_scopes" THEN Tail(@) ELSE @,
               !.call = [field |-> field, source |-> source, node |-> pair.node, edge |-> pair.edge]]
       IN /\ ~field.todo
          /\ stack' = Append(SetTop(caller), Frame(pair.node, edges))
          /\ log' = Append(log, Event("process_child", top.node, pair.edge, "", pair.node))
    /\ UNCHANGED <<input, graph, builder, roots, collected, ret, outcome>>

\* process_child_with_dependency: a projected selection that does not name
\* exactly one field, todo!
ProcessChildTodo ==
    /\ InChildren
    /\ ret.kind = "none"
    /\ prepass_field(edge_content(graph, NextPair.edge)).todo
    /\ Abort
    /\ UNCHANGED <<graph, log>>

\* Mutant: the error of a child dropped, the next child taken.
ChildErrSkipped ==
    /\ InChildren
    /\ ret.kind = "Err"
    /\ ret' = NoRet
    /\ stack' = SetTop([top EXCEPT
           !.call = NoCall,
           !.pc = IF top.pc = "process_children"
                  THEN children_pc(top.child_pairs, top.result_subgraphs)
                  ELSE IF top.result_subgraphs # <<>> THEN "fold_result_scopes"
                  ELSE "pluck_node"])
    /\ UNCHANGED <<input, graph, builder, roots, collected, outcome, log>>

\* The child returned Err: the ? of process_child_with_dependency and of the
\* collect() around it return it from this frame too.
ChildErr ==
    /\ InChildren
    /\ ret.kind = "Err"
    /\ stack' = Popped
    /\ UNCHANGED <<input, graph, builder, roots, collected, ret, outcome, log>>

\* The child returned Ok: process_child_with_dependency wraps the expression;
\* process_children pushes it, fold_result_scopes binds it under the child's
\* id and, after the last result child, builds the fold, which
\* process_children pushes last.
ChildOk ==
    /\ InChildren
    /\ ret.kind = "Ok"
    /\ LET expr == wrap_map_field(top.call.field, top.call.source, ret.expr)
           more == children_pc(top.child_pairs, top.result_subgraphs)
       IN IF top.pc = "process_children"
          THEN stack' = SetTop([top EXCEPT
                   !.expressions = Append(@, expr), !.pushed = Append(@, top.call.edge),
                   !.call = NoCall, !.pc = more])
          ELSE LET bindings == Append(top.bindings, Binding(id(top.call.node), expr))
               IN IF more = "fold_result_scopes"
                  THEN stack' = SetTop([top EXCEPT
                           !.bindings = bindings, !.bound = Append(@, top.call.edge),
                           !.call = NoCall])
                  ELSE stack' = SetTop([top EXCEPT
                           !.bindings = <<>>, !.bound = Append(@, top.call.edge),
                           !.expressions = Append(@, fold_result_expr(graph, bindings)),
                           !.call = NoCall,
                           !.pc = "pluck_node"])
    /\ ret' = NoRet
    /\ UNCHANGED <<input, graph, builder, roots, collected, outcome, log>>

\* ------------------------------------- translate_query after the children

\* translate_query: pluck_node
PluckNode ==
    /\ InFrame("pluck_node")
    /\ graph' = pluck_node(graph, top.node)
    /\ stack' = SetTop([top EXCEPT
           !.payload = [tag |-> node_content(graph, top.node), node |-> top.node, inputs |-> <<>>],
           !.pc = "pluck_edge", !.edge_i = 1])
    /\ log' = Append(log, Event("pluck_node", top.node, 0, node_content(graph, top.node), 0))
    /\ UNCHANGED <<input, builder, roots, collected, ret, outcome>>

InEdges ==
    /\ InFrame("pluck_edge")
    /\ top.edge_i <= Len(top.parent_edges)

ThisEdge == top.parent_edges[top.edge_i]
PluckEdgeEvent ==
    Event("pluck_edge", top.node, ThisEdge, edge_content(graph, ThisEdge).kind, 0)

\* translate_query: pluck_edge gives ExecutionOrder
PluckEdgeOrder ==
    /\ InEdges
    /\ edge_content(graph, ThisEdge).kind = "ExecutionOrder"
    /\ graph' = pluck_edge(graph, ThisEdge)
    /\ stack' = SetTop([top EXCEPT !.edge_i = @ + 1])
    /\ log' = Append(log, PluckEdgeEvent)
    /\ UNCHANGED <<input, builder, roots, collected, ret, outcome>>

\* translate_query: pluck_edge gives ProjectedDataDependency and f returns Ok
PluckEdgeProjected ==
    /\ InEdges
    /\ edge_content(graph, ThisEdge).kind = "ProjectedDataDependency"
    /\ edge_content(graph, ThisEdge).f_ok
    /\ graph' = pluck_edge(graph, ThisEdge)
    /\ LET fields == selection_result(graph', ThisEdge, edge_content(graph, ThisEdge).selection)
       IN stack' = SetTop([top EXCEPT
              !.payload = apply_dependency(@, ThisEdge, fields),
              !.edge_i = @ + 1])
    /\ log' = log \o <<PluckEdgeEvent,
                       Event("rewrite", top.node, ThisEdge, "", id(edge_source(graph', ThisEdge)))>>
    /\ UNCHANGED <<input, builder, roots, collected, ret, outcome>>

\* translate_query: pluck_edge gives ProjectedDataDependency and f returns Err
PluckEdgeRewriteErr ==
    /\ InEdges
    /\ edge_content(graph, ThisEdge).kind = "ProjectedDataDependency"
    /\ ~edge_content(graph, ThisEdge).f_ok
    /\ graph' = pluck_edge(graph, ThisEdge)
    /\ ret' = Err(GraphBuildError(ThisEdge))
    /\ stack' = Popped
    /\ log' = log \o <<PluckEdgeEvent, Event("err", top.node, ThisEdge, "GraphBuildError", 0)>>
    /\ UNCHANGED <<input, builder, roots, collected, outcome>>

\* translate_query: pluck_edge gives DataDependency, Then or Else, todo!
\* (or the slot is empty: the graph refuses a second pluck)
PluckEdgeTodo ==
    /\ InEdges
    /\ edge_content(graph, ThisEdge).kind \in {"DataDependency", "Then", "Else", "None"}
    /\ graph' = pluck_edge(graph, ThisEdge)
    /\ log' = Append(log, PluckEdgeEvent)
    /\ Abort

InLower ==
    /\ InFrame("pluck_edge")
    /\ top.edge_i > Len(top.parent_edges)

\* translate_query: the lowering service rejects the query
LowerErr ==
    /\ InLower
    /\ top.payload.tag = "Query"
    /\ top.node \in builder.rejects
    /\ ret' = Err(QueryBuildFailure(top.node))
    /\ stack' = Popped
    /\ log' = log \o <<Event("lower", top.node, 0, "", 0),
                       Event("err", top.node, 0, "QueryBuildFailure", 0)>>
    /\ UNCHANGED <<input, graph, builder, roots, collected, outcome>>

\* translate_query: node.try_into().expect (a payload that is no query
\* aborts); the lowering service returns the leaf; Let over the children, or
\* the leaf alone
LowerOk ==
    /\ InLower
    /\ top.payload.tag = "Query" => top.node \notin builder.rejects
    /\ IF top.payload.tag # "Query"
       THEN Abort /\ UNCHANGED <<graph, log>>
       ELSE /\ ret' = Ok(query_expr(top.node, QueryExpr(top.payload), top.expressions))
            /\ stack' = Popped
            /\ log' = Append(log, Event("lower", top.node, 0, "", 0))
            /\ UNCHANGED <<input, graph, builder, roots, collected, outcome>>

Next ==
    \/ translate
    \/ TranslateRoot
    \/ RootOk
    \/ RootErr
    \/ Finish
    \/ TranslateNoContent
    \/ TranslateEmpty
    \/ TranslateUnimplemented
    \/ TranslateQuery
    \/ ProcessChild
    \/ ProcessChildTodo
    \/ ChildErr
    \/ ChildOk
    \/ PluckNode
    \/ PluckEdgeOrder
    \/ PluckEdgeProjected
    \/ PluckEdgeRewriteErr
    \/ PluckEdgeTodo
    \/ LowerErr
    \/ LowerOk

Spec == Init /\ [][Next]_vars

\* ------------------------------------------------------------ the log, read

\* How many events of the log are op on node.
Count(op, node) ==
    Cardinality({i \in 1..Len(log) : log[i].op = op /\ log[i].node = node})
\* How many times edge was plucked.
EdgePlucks(edge) ==
    Cardinality({i \in 1..Len(log) : log[i].op = "pluck_edge" /\ log[i].edge = edge})

Terminated == outcome.status \in {"ok", "error", "abort"}

\* ------------------------------------------------------------------ claims

\* C1: during one call of translate, every node is plucked at most once and
\* every edge is plucked at most once, an edge is plucked only by the
\* translation of its target node, and translating a node again after it was
\* plucked does not pluck it again.
C1_SingleConsumption ==
    /\ \A n \in NodeRefs(graph) : Count("pluck_node", n) <= 1
    /\ \A e \in EdgeRefs(graph) : EdgePlucks(e) <= 1
    /\ \A i \in 1..Len(log) :
          log[i].op = "pluck_edge" => edge_target(graph, log[i].edge) = log[i].node

\* C1 witness: a node with two incoming edges was translated twice, and it
\* and both edges were plucked once.
C1_Witness ==
    \E n \in NodeRefs(graph) :
       /\ Count("translate", n) = 2
       /\ Count("pluck_node", n) = 1
       /\ Len(incoming_edges(graph, n)) = 2
       /\ \A e \in EdgeRefs(graph) : edge_target(graph, e) = n => EdgePlucks(e) = 1

\* The nodes reachable from a root of g.
ReachableFromRoots(g) ==
    Reach(g, {root_nodes(g)[i] : i \in 1..Len(root_nodes(g))}, {})

\* The nodes of g translate is called on: the roots, and the children of
\* every such node that holds a query and is no result node.
RECURSIVE Descent(_, _, _)
Descent(g, frontier, seen) ==
    IF frontier \subseteq seen THEN seen
    ELSE LET open == {n \in frontier \ seen :
                         node_content(g, n) = "Query" /\ ~is_result_node(g, n)}
         IN Descent(g,
                    {edge_target(g, e) : e \in {x \in EdgeRefs(g) : edge_source(g, x) \in open}},
                    seen \cup frontier)
Translated(g) ==
    Descent(g, {root_nodes(g)[i] : i \in 1..Len(root_nodes(g))}, {})

\* C2 as claimed: when translate returns an expression, every node reachable
\* from a root was translated exactly once.
C2_EveryReachableNodeOnce ==
    outcome.status = "ok" =>
        \A n \in ReachableFromRoots(input) : Count("translate", n) = 1

\* C2, amended: when translate returns an expression, every node that is a
\* root or is reached from a root through query nodes that are no result
\* nodes was translated: a query node exactly once, and marked visited
\* exactly once; an empty node at least once, and never marked visited.  No
\* other node (one below a result node or below an empty node only) was
\* translated or marked visited.
C2_TranslatedNodesOnce ==
    outcome.status = "ok" =>
        \A n \in NodeRefs(input) :
           IF n \in Translated(input)
           THEN \/ /\ node_content(input, n) = "Query"
                   /\ Count("translate", n) = 1
                   /\ Count("mark_visited", n) = 1
                \/ /\ node_content(input, n) = "Empty"
                   /\ Count("translate", n) >= 1
                   /\ Count("mark_visited", n) = 0
           ELSE Count("translate", n) = 0 /\ Count("mark_visited", n) = 0

\* C2 witness: translate returned an expression; a child of a query node was
\* translated, and a node reachable from a root was not.
C2_Witness ==
    /\ outcome.status = "ok"
    /\ \E n \in Translated(input) :
          /\ incoming_edges(input, n) # <<>>
          /\ node_content(input, n) = "Query"
          /\ Count("translate", n) = 1
    /\ \E n \in ReachableFromRoots(input) \ Translated(input) :
          Count("translate", n) = 0

\* ------------------------------------------------- the order of the children

IsPrefix(s, t) == Len(s) <= Len(t) /\ \A i \in 1..Len(s) : s[i] = t[i]
EdgesOf(pairs) == [i \in 1..Len(pairs) |-> pairs[i].edge]

\* The children of node whose subgraph holds a result node, and the others,
\* each in the order of direct_child_pairs.
ResultChildren(node) ==
    SelectSeq(direct_child_pairs(input, node),
              LAMBDA pair : subgraph_contains_result(input, pair.node))
EffectChildren(node) ==
    SelectSeq(direct_child_pairs(input, node),
              LAMBDA pair : ~subgraph_contains_result(input, pair.node))

\* C3 as claimed: the result children of a node are translated and bound in
\* the fold in the order they have in direct_child_pairs of the node.
C3_ResultChildrenInOrder ==
    \A k \in 1..Len(stack) :
       IsPrefix(stack[k].bound, EdgesOf(ResultChildren(stack[k].node)))

\* The node an expression is the translation of (0: of an empty node, or a
\* fold).
BodyNode(expr) ==
    IF expr.tag = "Query" THEN expr.query.node
    ELSE IF expr.tag = "Let" /\ expr.expr.tag = "Seq" THEN expr.bindings[1].name
    ELSE 0
\* The same, seen through the Let of a MapField put around the expression.
ExprNode(expr) ==
    IF expr.tag = "Let" /\ expr.bindings[1].expr.tag = "MapField"
    THEN BodyNode(expr.expr) ELSE BodyNode(expr)

\* C4: the effect children of a node are translated in the order they have
\* in direct_child_pairs of the node, and their expressions stand in that
\* order in the Seq of the node's expression, before the fold of the result
\* children.
C4_EffectChildrenInOrder ==
    /\ \A k \in 1..Len(stack) :
          /\ IsPrefix(stack[k].pushed, EdgesOf(EffectChildren(stack[k].node)))
          /\ Len(stack[k].expressions) >= Len(stack[k].pushed)
    /\ (ret.kind = "Ok" /\ ret.expr.tag = "Let" /\ ret.expr.expr.tag = "Seq") =>
          LET effects == EffectChildren(ret.expr.bindings[1].name)
              items == ret.expr.expr.items
          IN /\ Len(items) >= Len(effects)
             /\ \A i \in 1..Len(effects) :
                   ExprNode(items[i]) =
                       IF node_content(input, effects[i].node) = "Query"
                       THEN effects[i].node ELSE 0

\* C4 witness: a node returned its expression with two effect children and a
\* result child between them in direct_child_pairs.
C4_Witness ==
    /\ ret.kind = "Ok" /\ ret.expr.tag = "Let" /\ ret.expr.expr.tag = "Seq"
    /\ LET pairs == direct_child_pairs(input, ret.expr.bindings[1].name)
       IN /\ Len(pairs) = 3
          /\ ~subgraph_contains_result(input, pairs[1].node)
          /\ subgraph_contains_result(input, pairs[2].node)
          /\ ~subgraph_contains_result(input, pairs[3].node)
          /\ Len(ret.expr.expr.items) = 3

\* ------------------------------------------------------------------ scoping

\* Whether every Get and GetFirstNonEmpty of expr names a binding of env or of
\* a Let around it: the bindings of a Let are evaluated in order, each in the
\* scope of those before it, and the body in the scope of all.
RECURSIVE Scoped(_, _)
Scoped(expr, env) ==
    CASE expr.tag = "Seq" ->
            \A i \in 1..Len(expr.items) : Scoped(expr.items[i], env)
      [] expr.tag = "Let" ->
            /\ \A i \in 1..Len(expr.bindings) :
                  Scoped(expr.bindings[i].expr,
                         env \cup {expr.bindings[j].name : j \in 1..(i - 1)})
            /\ Scoped(expr.expr,
                      env \cup {expr.bindings[j].name : j \in 1..Len(expr.bindings)})
      [] expr.tag = "Get" -> expr.name \in env
      [] expr.tag = "GetFirstNonEmpty" ->
            \A i \in 1..Len(expr.names) : expr.names[i] \in env
      [] expr.tag = "MapField" -> Scoped(expr.records, env)
      [] OTHER -> TRUE

\* Whether expr holds a subexpression of the tag.
RECURSIVE HasTag(_, _)
HasTag(expr, tag) ==
    \/ expr.tag = tag
    \/ CASE expr.tag = "Seq" -> \E i \in 1..Len(expr.items) : HasTag(expr.items[i], tag)
         [] expr.tag = "Let" ->
               \/ \E i \in 1..Len(expr.bindings) : HasTag(expr.bindings[i].expr, tag)
               \/ HasTag(expr.expr, tag)
         [] expr.tag = "MapField" -> HasTag(expr.records, tag)
         [] OTHER -> FALSE

\* C5: in the expression translate returns, every Get (that of a MapField and
\* that of a fold included) and every GetFirstNonEmpty stands in the scope of
\* a Let that binds its name before it is evaluated.
C5_GetsAreBound ==
    outcome.status = "ok" => Scoped(outcome.expr, {})

\* C5 witness: translate returned an expression with the Get of a MapField,
\* the Get of a fold and a GetFirstNonEmpty in it.
C5_Witness ==
    /\ outcome.status = "ok"
    /\ HasTag(outcome.expr, "MapField")
    /\ HasTag(outcome.expr, "GetFirstNonEmpty")

\* ------------------------------------------------ projected-data dependencies

\* Whether expr holds Let([(source, MapField(field, Get(source)))], body), body
\* the expression of node.
RECURSIVE Rebinds(_, _, _, _)
Rebinds(expr, source, field, node) ==
    \/ /\ expr.tag = "Let"
       /\ Len(expr.bindings) = 1
       /\ expr.bindings[1].name = source
       /\ expr.bindings[1].expr.tag = "MapField"
       /\ expr.bindings[1].expr.field = field
       /\ expr.bindings[1].expr.records.tag = "Get"
       /\ expr.bindings[1].expr.records.name = source
       /\ BodyNode(expr.expr) = node
    \/ CASE expr.tag = "Seq" ->
               \E i \in 1..Len(expr.items) : Rebinds(expr.items[i], source, field, node)
         [] expr.tag = "Let" ->
               \/ \E i \in 1..Len(expr.bindings) :
                     Rebinds(expr.bindings[i].expr, source, field, node)
               \/ Rebinds(expr.expr, source, field, node)
         [] expr.tag = "MapField" -> Rebinds(expr.records, source, field, node)
         [] OTHER -> FALSE

\* C6 as claimed: for every single-field projected-data dependency edge from
\* S whose dependency was applied to a translated node C, the expression of C
\* in what translate returns is the body of
\* Let([(id(S), MapField(field, Get(id(S))))], ..), also when C has more than
\* one parent.
C6_EveryProjectedEdgeRebinds ==
    outcome.status = "ok" =>
        \A i \in 1..Len(log) :
           (/\ log[i].op = "rewrite"
            /\ Len(edge_content(input, log[i].edge).selection) = 1)
           => Rebinds(outcome.expr, log[i].name,
                      db_name(edge_content(input, log[i].edge).selection[1]),
                      log[i].node)

\* ------------------------------------------------------------------- errors

\* C7 as claimed: if a node of the graph has no content, translate fails
\* with NodeContentEmpty of that node and returns no expression.
C7_ContentlessNodeFails ==
    \A n \in NodeRefs(input) :
       (node_content(input, n) = "None" /\ Terminated)
       => /\ outcome.status = "error"
          /\ outcome.error.tag = "NodeContentEmpty"
          /\ outcome.error.id = id(n)
          /\ outcome.expr = NoExpr

\* C7, amended: once the translator is called on a node that has no content
\* (never filled, or plucked before), NodeContentEmpty of that node is the
\* error on its way up and nothing else happens; translate can only end with
\* that error and no expression.
C7_TranslatedContentlessNodeFails ==
    \A i \in 1..Len(log) :
       (log[i].op = "translate" /\ log[i].content = "None")
       => /\ Len(log) = i + 1
          /\ log[i + 1].op = "err"
          /\ log[i + 1].node = log[i].node
          /\ log[i + 1].content = "NodeContentEmpty"
          /\ outcome.status \in {"running", "error"}
          /\ outcome.status = "running" =>
                /\ ret.kind = "Err"
                /\ ret.error.tag = "NodeContentEmpty"
                /\ ret.error.id = id(log[i].node)
          /\ outcome.status = "error" =>
                /\ outcome.error.tag = "NodeContentEmpty"
                /\ outcome.error.id = id(log[i].node)
                /\ outcome.expr = NoExpr

\* C7 witness: translate ended with NodeContentEmpty of a node the input
\* graph holds no content for, after a root was translated.
C7_Witness ==
    /\ outcome.status = "error"
    /\ outcome.error.tag = "NodeContentEmpty"
    /\ node_content(input, outcome.error.id) = "None"
    /\ outcome.expr = NoExpr
    /\ collected # <<>>

\* --------------------------------------------------------------- the fold

\* The frames whose fold of the result children is built.
Folded(frame) ==
    /\ frame.bound # <<>>
    /\ frame.pc \in {"pluck_node", "pluck_edge"}
FoldOf(frame) == frame.expressions[Len(frame.expressions)]

\* C8 as claimed: with exactly one result node in the graph, the fold of a
\* node is Let(bindings, Get(n)), one binding per result child named by the
\* child's id, n the name of the last binding, which is the child that is the
\* later of the result children in direct_child_pairs of the node.
C8_GetNamesLaterResultChild ==
    \A k \in 1..Len(stack) :
       (Folded(stack[k]) /\ Cardinality(input.result_nodes) = 1)
       => LET fold == FoldOf(stack[k])
              children == ResultChildren(stack[k].node)
          IN /\ fold.tag = "Let"
             /\ Len(fold.bindings) = Len(children)
             /\ fold.expr.tag = "Get"
             /\ fold.expr.name = fold.bindings[Len(fold.bindings)].name
             /\ fold.expr.name = id(children[Len(children)].node)

C10_FailureAborts ==
    /\ \A i \in 1..Len(log) :
          log[i].op = "err"
          => /\ i = Len(log)
             /\ outcome.status \in {"running", "error"}
             /\ outcome.status = "running" =>
                   (ret.kind = "Err" /\ ret.error.tag = log[i].content)
             /\ outcome.status = "error" =>
                   (outcome.error.tag = log[i].content /\ outcome.expr = NoExpr)
    /\ outcome.status = "error" => (log # <<>> /\ log[Len(log)].op = "err")
    /\ ret.kind = "Err" => (log # <<>> /\ log[Len(log)].op = "err")

\* C10 witness: translate returned an error, and a sibling or a root that
\* would have been translated after the failing node never was.
C10_Witness ==
    /\ outcome.status = "error"
    /\ outcome.expr = NoExpr
    /\ \E n \in Translated(input) : Count("translate", n) = 0


\* ------------------------------------------------------------------ the roots

\* The expression of a node as translate_query or translate returns it: the
\* leaf, the leaf bound over the children, or the empty Seq of an empty node.
IsExprOf(expr, node) ==
    IF node_content(input, node) = "Empty"
    THEN expr.tag = "Seq" /\ Len(expr.items) = 0
    ELSE \/ expr.tag = "Query" /\ expr.query.node = node
         \/ /\ expr.tag = "Let"
            /\ expr.expr.tag = "Seq"
            /\ Len(expr.bindings) = 1
            /\ expr.bindings[1].name = id(node)
            /\ expr.bindings[1].expr.tag = "Query"
            /\ expr.bindings[1].expr.query.node = node

\* The leaf of a root in its expression (an empty node has none).
RootLeaf(expr) ==
    IF expr.tag = "Query" THEN expr.query ELSE expr.bindings[1].expr.query

\* C11: a graph with N roots translates to Seq of exactly N expressions, the
\* i-th the translation of the i-th root of root_nodes(), translated with no
\* incoming edges (nothing applied to its query); the roots are translated in
\* that order, and N = 0 gives the empty Seq and N = 1 a Seq of one.
C11_SeqOfRoots ==
    LET all == root_nodes(input)
    IN /\ stack # <<>> =>
             /\ stack[1].parent_edges = <<>>
             /\ Len(collected) < Len(all)
             /\ stack[1].node = all[Len(collected) + 1]
       /\ Len(collected) <= Len(all)
       /\ \A i \in 1..Len(collected) :
             /\ IsExprOf(collected[i], all[i])
             /\ node_content(input, all[i]) = "Query" => RootLeaf(collected[i]).inputs = <<>>
       /\ outcome.status = "ok" =>
             /\ outcome.expr.tag = "Seq"
             /\ Len(outcome.expr.items) = Len(all)
             /\ outcome.expr.items = collected

\* C11 witness: translate returned the Seq of two roots, the first a bare
\* leaf and the second bound over its children.
C11_Witness ==
    /\ outcome.status = "ok"
    /\ Len(root_nodes(input)) = 2
    /\ Len(outcome.expr.items) = 2
    /\ outcome.expr.items[1].tag = "Query"
    /\ outcome.expr.items[2].tag = "Let"

\* ------------------------------------------------------------- empty nodes

\* The node whose translate() returned ret.
ReturningNode ==
    IF stack = <<>> THEN root_nodes(input)[Len(collected) + 1] ELSE top.call.node

\* C12: translate() of a node that holds the empty marker returns the empty
\* Seq wherever the node stands (root, effect child, result child, result
\* node), and neither marks it visited, nor plucks it, nor plucks an edge
\* into it, nor translates a child of it.
C12_EmptyNodeUntouched ==
    \A n \in NodeRefs(input) :
       node_content(input, n) = "Empty"
       => /\ node_content(graph, n) = "Empty"
          /\ n \notin graph.visited
          /\ Count("mark_visited", n) = 0
          /\ Count("pluck_node", n) = 0
          /\ Count("process_child", n) = 0
          /\ Count("pluck_edge", n) = 0
          /\ Count("lower", n) = 0
          /\ \A e \in EdgeRefs(input) :
                edge_target(input, e) = n => edge_content(graph, e) = edge_content(input, e)
          /\ (ret.kind # "none" /\ ReturningNode = n)
                => (ret.kind = "Ok" /\ ret.expr.tag = "Seq" /\ Len(ret.expr.items) = 0)

\* C12 witness: translate() of an empty node that is a result node, has a
\* parent and has a child returned to the parent.
C12_Witness ==
    /\ ret.kind = "Ok"
    /\ stack # <<>>
    /\ node_content(input, top.call.node) = "Empty"
    /\ is_result_node(input, top.call.node)
    /\ outgoing_edges(input, top.call.node) # <<>>
    /\ Count("translate", top.call.node) = 1


\* ---------------------------------------------------------- unsupported shapes

\* C13 as claimed: translate never aborts; an unsupported shape (a data
\* dependency, a then or else dependency, a projected selection of other than
\* one field in the pre-pass, a node content that is neither a query nor
\* empty) ends it with an error value.
C13_UnsupportedShapeIsError ==
    outcome.status # "abort"

\* --------------------------------------------- what process_children returns

IsFold(expr) ==
    expr.tag = "Let" /\ expr.expr.tag \in {"Get", "GetFirstNonEmpty"}

\* The frames whose process_children has returned.
ChildrenDone(frame) == frame.pc \in {"pluck_node", "pluck_edge"}

\* The edge goes to a result child of its source.
IsResultEdge(edge) == subgraph_contains_result(input, edge_target(input, edge))

\* C14: process_children returns the expressions of all effect children
\* first and, if and only if the node has a result child, one more expression
\* last, the fold of all result children; in one call of process_children no
\* result child is translated before every effect child has been translated
\* and has returned, whatever their order in direct_child_pairs.
C14_EffectsThenOneFold ==
    /\ \A k \in 1..Len(stack) :
          LET frame == stack[k]
              effects == EffectChildren(frame.node)
              results == ResultChildren(frame.node)
          IN /\ frame.pc = "process_children" => (frame.bound = <<>> /\ frame.bindings = <<>>)
             /\ (frame.pc = "fold_result_scopes" \/ frame.bound # <<>>) =>
                   /\ frame.pushed = EdgesOf(effects)
                   /\ Len(frame.expressions) >= Len(effects)
             /\ (ChildrenDone(frame) /\ ~is_result_node(input, frame.node)) =>
                   /\ Len(frame.expressions) =
                         Len(effects) + (IF results # <<>> THEN 1 ELSE 0)
                   /\ \A i \in 1..Len(effects) : ~IsFold(frame.expressions[i])
                   /\ results # <<>> =>
                         /\ IsFold(FoldOf(frame))
                         /\ Len(FoldOf(frame).bindings) = Len(results)
    /\ \A k \in 1..(Len(stack) - 1) :
          IsResultEdge(stack[k].call.edge) <=> stack[k].pc = "fold_result_scopes"

\* C14 witness: process_children of a node returned one effect expression
\* and the fold after it, the result child standing before the effect child
\* in direct_child_pairs.
C14_Witness ==
    \E k \in 1..Len(stack) :
       /\ ChildrenDone(stack[k])
       /\ Len(direct_child_pairs(input, stack[k].node)) = 2
       /\ subgraph_contains_result(input, direct_child_pairs(input, stack[k].node)[1].node)
       /\ ~subgraph_contains_result(input, direct_child_pairs(input, stack[k].node)[2].node)
       /\ Len(stack[k].expressions) = 2
       /\ ~IsFold(stack[k].expressions[1])
       /\ IsFold(stack[k].expressions[2])


\* ------------------------------------------------ what translate_query returns

\* C15: a query node that is a result node is never descended into (no
\* child is translated by it) and its translation is the bare leaf; a query
\* node that is no result node yields Let([(id, leaf)], Seq(children)) with at
\* least one child expression when it has children, and the bare leaf when it
\* has none.
C15_ResultNodeIsLeaf ==
    /\ \A n \in NodeRefs(input) :
          (node_content(input, n) = "Query" /\ is_result_node(input, n))
          => Count("process_child", n) = 0
    /\ \A k \in 1..Len(stack) :
          is_result_node(input, stack[k].node)
          => /\ stack[k].child_pairs = <<>>
             /\ stack[k].result_subgraphs = <<>>
             /\ stack[k].expressions = <<>>
    /\ (ret.kind = "Ok" /\ node_content(input, ReturningNode) = "Query") =>
          IF \/ is_result_node(input, ReturningNode)
             \/ direct_child_pairs(input, ReturningNode) = <<>>
          THEN /\ ret.expr.tag = "Query"
               /\ ret.expr.query.node = ReturningNode
          ELSE /\ ret.expr.tag = "Let"
               /\ Len(ret.expr.bindings) = 1
               /\ ret.expr.bindings[1].name = id(ReturningNode)
               /\ ret.expr.bindings[1].expr.tag = "Query"
               /\ ret.expr.bindings[1].expr.query.node = ReturningNode
               /\ ret.expr.expr.tag = "Seq"
               /\ Len(ret.expr.expr.items) >= 1

\* C15 witness: the translation of a query node that is a result node, has a
\* parent and has a child returned the bare leaf, the child not translated.
C15_Witness ==
    /\ ret.kind = "Ok"
    /\ stack # <<>>
    /\ node_content(input, top.call.node) = "Query"
    /\ is_result_node(input, top.call.node)
    /\ outgoing_edges(input, top.call.node) # <<>>
    /\ ret.expr.tag = "Query"
    /\ \A e \in EdgeRefs(input) :
          edge_source(input, e) = top.call.node
          => Count("translate", edge_target(input, e)) = 0


\* ------------------------------------------------ the order of the steps

\* The edges plucked by the translation of node, in the order of the log.
PluckedEdges(node) ==
    LET events == SelectSeq(log, LAMBDA ev : ev.op = "pluck_edge" /\ ev.node = node)
    IN [i \in 1..Len(events) |-> events[i].edge]

\* C16: for every translated query node, mark_visited comes first; then its
\* children are translated, each to its end; only then the node is plucked;
\* then its incoming edges are plucked and applied, in the order of
\* incoming_edges; then the lowering service is called, once.  A node is
\* plucked after every query node translated beneath it, and an edge is never
\* plucked before its target node.
C16_StepsInOrder ==
    /\ \A k \in 1..(Len(stack) - 1) :
          stack[k].pc \in {"process_children", "fold_result_scopes"}
    /\ \A n \in NodeRefs(input) :
          /\ Count("lower", n) <= 1
          /\ IsPrefix(PluckedEdges(n), incoming_edges(input, n))
    /\ \A j \in 1..Len(log) :
          /\ log[j].op = "process_child" =>
                \E i \in 1..(j - 1) : log[i].op = "mark_visited" /\ log[i].node = log[j].node
          /\ log[j].op = "pluck_node" =>
                /\ \E i \in 1..(j - 1) : log[i].op = "mark_visited" /\ log[i].node = log[j].node
                /\ \A i \in 1..Len(log) :
                      (log[i].op = "process_child" /\ log[i].node = log[j].node)
                      => /\ i < j
                         /\ node_content(input, log[i].name) = "Query" =>
                               \E m \in (i + 1)..(j - 1) :
                                  log[m].op = "pluck_node" /\ log[m].node = log[i].name
                /\ \A i \in 1..Len(log) :
                      (log[i].op \in {"pluck_edge", "rewrite", "lower"} /\ log[i].node = log[j].node)
                      => i > j
          /\ log[j].op = "pluck_edge" =>
                \E i \in 1..(j - 1) : log[i].op = "pluck_node" /\ log[i].node = log[j].node
          /\ log[j].op = "lower" =>
                /\ PluckedEdges(log[j].node) = incoming_edges(input, log[j].node)
                /\ \A i \in 1..Len(log) :
                      (log[i].op \in {"pluck_edge", "rewrite"} /\ log[i].node = log[j].node)
                      => i < j

\* C16 witness: a node with two incoming edges and a child was marked
\* visited, its child translated, the node plucked, both edges plucked, and
\* the node lowered.
C16_Witness ==
    \E n \in NodeRefs(input) :
       /\ Len(incoming_edges(input, n)) = 2
       /\ Count("process_child", n) = 1
       /\ Count("pluck_node", n) = 1
       /\ Len(PluckedEdges(n)) = 2
       /\ Count("lower", n) = 1


\* ------------------------------------------------------------- placeholders

\* Whether every placeholder of every leaf of expr is named after the source
\* of the edge it came by and is a name of env or bound by a Let around the
\* leaf.
RECURSIVE PlaceholdersBound(_, _)
PlaceholdersBound(expr, env) ==
    CASE expr.tag = "Query" ->
            \A k \in 1..Len(expr.query.inputs) :
               \A f \in 1..Len(expr.query.inputs[k].fields) :
                  /\ expr.query.inputs[k].fields[f].placeholder =
                         id(edge_source(input, expr.query.inputs[k].edge))
                  /\ expr.query.inputs[k].fields[f].placeholder \in env
      [] expr.tag = "Seq" ->
            \A i \in 1..Len(expr.items) : PlaceholdersBound(expr.items[i], env)
      [] expr.tag = "Let" ->
            /\ \A i \in 1..Len(expr.bindings) :
                  PlaceholdersBound(expr.bindings[i].expr,
                                    env \cup {expr.bindings[j].name : j \in 1..(i - 1)})
            /\ PlaceholdersBound(expr.expr,
                                 env \cup {expr.bindings[j].name : j \in 1..Len(expr.bindings)})
      [] expr.tag = "MapField" -> PlaceholdersBound(expr.records, env)
      [] OTHER -> TRUE

\* C17 as claimed: in the expression translate returns, every placeholder
\* put into a query by a projected-data dependency edge (every incoming edge
\* of the node, those from other parents than the one it was reached through
\* included) is named by the id of the source of the edge, and that name is
\* bound by a Let around the leaf of the node.
C17_PlaceholdersAreBound ==
    outcome.status = "ok" => PlaceholdersBound(outcome.expr, {})

\* ---------------------------------------------------------------- termination

\* C18 as claimed: the recursion is bounded by the graph: translate() is
\* never entered for a node while a translation of the same node is still in
\* progress, on any graph, one with a cycle or with a node of several parents
\* included, so that translate terminates.
C18_NoReentry ==
    \A j, k \in 1..Len(stack) : j < k => stack[j].node # stack[k].node

====
